---- MODULE Spec2Model ----
(***************************************************************************)
(* stsc/utils.py of stereoscope: make_joint_matrix, split_joint_matrix and *)
(* LossTracker.                                                            *)
(*                                                                         *)
(* A string is a sequence of one-character strings ("0&-a" is              *)
(* <<"0","&","-","a">>).  A labelled table (a pandas DataFrame) is a       *)
(* record [rows, cols, vals]: the row labels (its index), the column       *)
(* labels, and one sequence of cell values per row.  Column labels are     *)
(* the genes 1, 2, ..., which stand for the names "g1", "g2", ... in their *)
(* lexicographic order.                                                    *)
(***************************************************************************)
EXTENDS Integers, Sequences, FiniteSets, TLC

\* ------------------------------------------------------------------ bounds
\* tables read by one call of make_joint_matrix
MaxTables == 2
\* rows of the joint matrix built by make_joint_matrix
MaxRows == 2
\* rows of a joint matrix handed directly to split_joint_matrix
MaxJointRows == 3
\* calls of LossTracker.__call__ in one run
MaxCalls == 3

\* ----------------------------------------------------------------- strings
\* the separator token '&-' (utils.py lines 62, 112)
SEP == <<"&", "-">>

DigitChars == <<"0", "1", "2", "3", "4", "5", "6", "7", "8", "9">>

IsDigit(c) == \E d \in 1..10 : DigitChars[d] = c

DigitVal(c) == (CHOOSE d \in 1..10 : DigitChars[d] = c) - 1

\* str(n) for an int n
RECURSIVE StrOfNat(_)
StrOfNat(n) ==
    IF n < 10 THEN <<DigitChars[n + 1]>>
    ELSE StrOfNat(n \div 10) \o <<DigitChars[(n % 10) + 1]>>

PyStr(n) == IF n < 0 THEN <<"-">> \o StrOfNat(0 - n) ELSE StrOfNat(n)

StartsWith(s, p) == Len(s) >= Len(p) /\ SubSeq(s, 1, Len(p)) = p

\* s.split(sep): leftmost non-overlapping occurrences of sep cut s
RECURSIVE SplitAcc(_, _, _)
SplitAcc(rest, sep, cur) ==
    IF rest = <<>> THEN <<cur>>
    ELSE IF StartsWith(rest, sep)
         THEN <<cur>> \o SplitAcc(SubSeq(rest, Len(sep) + 1, Len(rest)), sep, <<>>)
         ELSE SplitAcc(Tail(rest), sep, Append(cur, Head(rest)))

PySplit(s, sep) == SplitAcc(s, sep, <<>>)

\* s.replace(old, new)
RECURSIVE PyReplace(_, _, _)
PyReplace(s, old, new) ==
    IF s = <<>> THEN <<>>
    ELSE IF StartsWith(s, old)
         THEN new \o PyReplace(SubSeq(s, Len(old) + 1, Len(s)), old, new)
         ELSE <<Head(s)>> \o PyReplace(Tail(s), old, new)

AllDigits(s) == Len(s) > 0 /\ \A i \in 1..Len(s) : IsDigit(s[i])

\* the strings int() accepts, over the characters used here: an optional
\* sign and at least one digit
IsIntLiteral(s) ==
    \/ AllDigits(s)
    \/ Len(s) > 1 /\ s[1] \in {"-", "+"} /\ AllDigits(Tail(s))

RECURSIVE NatOfDigits(_)
NatOfDigits(s) ==
    IF s = <<>> THEN 0
    ELSE 10 * NatOfDigits(SubSeq(s, 1, Len(s) - 1)) + DigitVal(s[Len(s)])

\* int(s) for a string int() accepts
PyInt(s) ==
    IF s[1] = "-" THEN 0 - NatOfDigits(Tail(s))
    ELSE IF s[1] = "+" THEN NatOfDigits(Tail(s))
    ELSE NatOfDigits(s)

\* ------------------------------------------------------------ numpy/pandas
SeqToSet(s) == {s[i] : i \in 1..Len(s)}

RECURSIVE SortedSeq(_)
SortedSeq(S) ==
    IF S = {} THEN <<>>
    ELSE LET m == CHOOSE x \in S : \A y \in S : x <= y
         IN  <<m>> \o SortedSeq(S \ {m})

\* pd.Index.union(other) with sort=None: self when other is empty or equal,
\* other when self is empty, the sorted union otherwise
IndexUnion(self, other) ==
    IF other = <<>> \/ self = other THEN self
    ELSE IF self = <<>> THEN other
    ELSE SortedSeq(SeqToSet(self) \cup SeqToSet(other))

\* np.cumsum
RECURSIVE cumsum(_)
cumsum(s) ==
    IF Len(s) <= 1 THEN s
    ELSE LET c == cumsum(SubSeq(s, 1, Len(s) - 1))
         IN  Append(c, c[Len(c)] + s[Len(s)])

\* np.unique: the sorted distinct values
unique(s) == SortedSeq(SeqToSet(s))

\* np.zeros((n, m))
zeros(n, m) == [i \in 1..n |-> [j \in 1..m |-> 0]]

\* position of column label g in the column index cols
ColPos(cols, g) == CHOOSE j \in 1..Len(cols) : cols[j] = g

\* Positional variant of the assignment below: the block is written into
\* the leading columns, whatever their labels.
LocAssignByPosition(vals, jcols, start, end, cols, values) ==
    [i \in 1..Len(vals) |->
        [j \in 1..Len(jcols) |->
            IF start <= i - 1 /\ i - 1 <= end /\ j <= Len(cols)
               /\ i - start <= Len(values)
            THEN values[i - start][j]
            ELSE vals[i][j]]]

\* jmat.loc[start:end, cols] = values on a frame with the default index
\* 0..n-1: a label slice, both ends included; row i of the frame (1-based
\* position, label i-1) in the slice takes row i-start of values, column
\* by column label
LocAssign(vals, jcols, start, end, cols, values) ==
    [i \in 1..Len(vals) |->
        [j \in 1..Len(jcols) |->
            IF start <= i - 1 /\ i - 1 <= end /\ jcols[j] \in SeqToSet(cols)
               /\ i - start <= Len(values)
            THEN values[i - start][ColPos(cols, jcols[j])]
            ELSE vals[i][j]]]

\* ------------------------------------------------------------------ inputs
\* original row labels: "a", "-&" (the separator's characters, not the
\* separator) and "a&-b" (contains the separator)
Labels == {<<"a">>, <<"-", "&">>, <<"a", "&", "-", "b">>}

\* column indexes of the input files over the genes g1, g2
ColumnChoices == {<<1>>, <<2>>, <<1, 2>>, <<2, 1>>}

\* cell contents of an input file: all zero counts, or a count that differs
\* from cell to cell
FillChoices == {0, 1}

CellOf(p, r, g) == p * (10 * r + g)

MkTable(rw, cl, p) ==
    [rows |-> rw,
     cols |-> cl,
     vals |-> [r \in 1..Len(rw) |-> [j \in 1..Len(cl) |-> CellOf(p, r, cl[j])]]]

RowSeqs(n) == UNION {[1..r -> Labels] : r \in 0..n}

\* what read_file can return for a path: the tables of at most n rows
Tables(n) ==
    {MkTable(rw, cl, p) : rw \in RowSeqs(n), cl \in ColumnChoices, p \in FillChoices}

\* row labels of a table handed to split_joint_matrix by a caller
JointLabels ==
    {<<"0", "&", "-", "a">>,
     <<"1", "0", "&", "-", "a">>,
     <<"2", "&", "-", "b">>,
     <<"-", "1", "&", "-", "a">>,
     <<"a">>,
     <<"a", "&", "-", "a">>,
     <<"0", "&", "-", "a", "&", "-", "b">>}

\* the tables a caller can hand to split_joint_matrix: row i holds the
\* counts i and 10+i
GivenTables ==
    {[rows |-> rw, cols |-> <<1, 2>>, vals |-> [i \in 1..Len(rw) |-> <<i, 10 + i>>]] :
        rw \in UNION {[1..r -> JointLabels] : r \in 0..MaxJointRows}}

\* ------------------------------------------------------- make_joint_matrix
\* The row name with a file number counted from 1.
RowNameFromOne(k, x) == PyStr(k + 1) \o SEP \o x

\* the row name given to row label x of file k (line 62)
RowName(k, x) == PyStr(k) \o SEP \o x

\* the loop of lines 79-84, from file k (0-based) on
RECURSIVE ConstructFrom(_, _, _, _, _)
ConstructFrom(vals, jcols, sp, ml, k) ==
    IF k >= Len(sp) - 1 THEN vals
    ELSE LET start == sp[k + 1]
             end == sp[k + 2] - 1
         IN  ConstructFrom(LocAssign(vals, jcols, start, end, ml[k + 1].cols, ml[k + 1].vals),
                           jcols, sp, ml, k + 1)

\* lines 70-89: the joint matrix from the loop's results
JointOf(ml, ix, gn, spos) ==
    LET sp == cumsum(spos)
        z == zeros(sp[Len(sp)], Len(gn))
    IN  [rows |-> ix, cols |-> gn, vals |-> ConstructFrom(z, gn, sp, ml, 0)]

\* ------------------------------------------------------ split_joint_matrix
Min(S) == CHOOSE x \in S : \A y \in S : x <= y

\* number of tuples zip(*lists) yields: the shortest list's length, none
\* for no lists
ZipLen(lists) ==
    IF lists = <<>> THEN 0 ELSE Min({Len(lists[i]) : i \in 1..Len(lists)})

\* sel = (idx == k)
Select(ids, k) == [i \in 1..Len(ids) |-> ids[i] = k]

\* positions picked by a boolean mask, in order
RECURSIVE MaskPositions(_, _)
MaskPositions(sel, i) ==
    IF i > Len(sel) THEN <<>>
    ELSE (IF sel[i] THEN <<i>> ELSE <<>>) \o MaskPositions(sel, i + 1)

\* lines 133-138: the matrix of identifier k
TableOf(jm, ids, name, k) ==
    LET pos == MaskPositions(Select(ids, k), 1)
    IN  [rows |-> [m \in 1..Len(pos) |-> PyReplace(name[pos[m]], SEP, <<"_">>)],
         cols |-> jm.cols,
         vals |-> [m \in 1..Len(pos) |-> jm.vals[pos[m]]]]

\* split_joint_matrix(jmat): the exception it ends with ("none" when it
\* returns) and the list it returns
split_joint_matrix(jm) ==
    LET parts == [i \in 1..Len(jm.rows) |-> PySplit(jm.rows[i], SEP)]
    IN  IF ZipLen(parts) # 2
        \* idx, name = zip(...) fails to unpack; the bare except prints and
        \* line 123 reads the unassigned name
        THEN [err |-> "UnboundLocalError", matlist |-> <<>>]
        ELSE LET idx == [i \in 1..Len(parts) |-> parts[i][1]]
                 name == [i \in 1..Len(parts) |-> parts[i][2]]
             IN  IF \E i \in 1..Len(idx) : ~IsIntLiteral(idx[i])
                 \* astype(int), line 125
                 THEN [err |-> "ValueError", matlist |-> <<>>]
                 ELSE LET ids == [i \in 1..Len(idx) |-> PyInt(idx[i])]
                          uidx == unique(ids)
                      IN  [err |-> "none",
                           matlist |-> [j \in 1..Len(uidx) |-> TableOf(jm, ids, name, uidx[j])]]

\* ------------------------------------------------------------------- state
VARIABLES
    pc,         \* "loop", "joined", "split", "aborted"
    caller,     \* "join": jmat comes from make_joint_matrix; "given": from the caller
    mlist, index, genes, start_pos,    \* locals of make_joint_matrix
    jmat,       \* <<>> or <<the joint matrix>>
    matlist,    \* what split_joint_matrix returned
    err,        \* the exception the last call ended with, "none" for a return
    history, interval, opth,           \* LossTracker: fields and the output file's text
    losses,     \* every loss passed to __call__, in call order
    writes,     \* number of write_history calls so far
    lastop      \* the LossTracker operation that ran last

pvars == <<pc, caller, mlist, index, genes, start_pos, jmat, matlist, err>>
lvars == <<history, interval, opth, losses, writes, lastop>>
vars == <<pvars, lvars>>

Sum(s) == LET c == cumsum(s) IN IF c = <<>> THEN 0 ELSE c[Len(c)]

\* lines 50-54
PipeInit ==
    /\ pc = "loop"
    /\ caller = "join"
    /\ mlist = <<>>
    /\ start_pos = <<0>>
    /\ index = <<>>
    /\ genes = <<>>
    /\ jmat = <<>>
    /\ matlist = <<>>
    /\ err = "none"

\* one iteration of the loop of lines 57-68, read_file returning cnt
ReadNext(cnt) ==
    /\ pc = "loop"
    /\ Len(mlist) < MaxTables
    /\ Sum(start_pos) + Len(cnt.rows) <= MaxRows
    /\ mlist' = Append(mlist, cnt)
    /\ index' = index \o [i \in 1..Len(cnt.rows) |-> RowName(Len(mlist), cnt.rows[i])]
    /\ genes' = IndexUnion(genes, cnt.cols)
    /\ start_pos' = Append(start_pos, Len(cnt.rows))
    /\ UNCHANGED <<pc, caller, jmat, matlist, err>>

\* read_file prints and returns None (line 383), or exits (line 371): the
\* loop's next statement fails and make_joint_matrix returns nothing
ReadFails ==
    /\ pc = "loop"
    /\ Len(mlist) < MaxTables
    /\ pc' = "aborted"
    /\ err' = "AttributeError"
    /\ mlist' = <<>>
    /\ index' = <<>>
    /\ genes' = <<>>
    /\ start_pos' = <<0>>
    /\ UNCHANGED <<caller, jmat, matlist>>

\* lines 70-89, after the last path
Construct ==
    /\ pc = "loop"
    /\ start_pos' = cumsum(start_pos)
    /\ jmat' = <<JointOf(mlist, index, genes, start_pos)>>
    /\ err' = "none"
    /\ pc' = "joined"
    /\ UNCHANGED <<caller, mlist, index, genes, matlist>>

\* split_joint_matrix on the matrix make_joint_matrix returned
SplitJoined ==
    /\ pc = "joined"
    /\ LET r == split_joint_matrix(jmat[1])
       IN  /\ matlist' = r.matlist
           /\ err' = r.err
    /\ pc' = "split"
    /\ UNCHANGED <<caller, mlist, index, genes, start_pos, jmat>>

\* split_joint_matrix on a matrix of the caller's
SplitGiven(jm) ==
    /\ pc = "loop"
    /\ mlist = <<>>
    /\ caller' = "given"
    /\ jmat' = <<jm>>
    /\ LET r == split_joint_matrix(jm)
       IN  /\ matlist' = r.matlist
           /\ err' = r.err
    /\ pc' = "split"
    /\ UNCHANGED <<mlist, index, genes, start_pos>>

\* ------------------------------------------------------------- LossTracker
\* interval arguments of LossTracker.__init__
IntervalArgs == {-2, -1, 0, 1}

\* loss values passed to __call__
LossValues == {0, 7, -12}

\* epoch values passed to __call__
Epochs == -1..4

\* a % b in Python, b # 0: the result has the sign of b
PyMod(a, b) == IF b > 0 THEN a % b ELSE 0 - ((0 - a) % (0 - b))

\* sep.join(strs)
RECURSIVE PyJoin(_, _)
PyJoin(sep, strs) ==
    IF strs = <<>> THEN <<>>
    ELSE IF Len(strs) = 1 THEN strs[1]
    ELSE strs[1] \o sep \o PyJoin(sep, Tail(strs))

\* the text one write_history call appends (lines 306-309)
HistoryText(h) == <<",">> \o PyJoin(<<",">>, [i \in 1..Len(h) |-> PyStr(h[i])])

\* The history as it is when the written history is kept.
HistoryKept(h) == h

\* line 312
HistoryErased(h) == <<>>

\* lines 284-291
LossInit ==
    /\ history = <<>>
    /\ interval \in {a + 1 : a \in IntervalArgs}
    /\ opth = <<>>
    /\ losses = <<>>
    /\ writes = 0
    /\ lastop = "init"

\* write_history() with self.history = h, lines 305-312
write_history(h) ==
    /\ opth' = opth \o HistoryText(h)
    /\ history' = HistoryErased(h)
    /\ writes' = writes + 1

\* a direct call of write_history
WriteHistory ==
    /\ writes < MaxCalls
    /\ write_history(history)
    /\ lastop' = "write"
    /\ UNCHANGED <<interval, losses>>

\* __call__(loss, epoch), lines 329-333
Call(loss, epoch) ==
    /\ Len(losses) < MaxCalls
    /\ losses' = Append(losses, loss)
    /\ IF interval = 0
       \* epoch % 0: ZeroDivisionError after the append of line 329
       THEN /\ history' = Append(history, loss)
            /\ lastop' = "raised"
            /\ UNCHANGED <<opth, writes>>
       ELSE IF PyMod(epoch, interval) = 0 /\ epoch >= interval
            THEN /\ write_history(Append(history, loss))
                 /\ lastop' = "write"
            ELSE /\ history' = Append(history, loss)
                 /\ lastop' = "call"
                 /\ UNCHANGED <<opth, writes>>
    /\ UNCHANGED interval

\* ---------------------------------------------------------- specifications
Init ==
    /\ PipeInit
    /\ history = <<>>
    /\ interval = 101
    /\ opth = <<>>
    /\ losses = <<>>
    /\ writes = 0
    /\ lastop = "init"

Next ==
    \/ \E cnt \in Tables(MaxRows) : ReadNext(cnt) /\ UNCHANGED lvars
    \/ ReadFails /\ UNCHANGED lvars
    \/ Construct /\ UNCHANGED lvars
    \/ SplitJoined /\ UNCHANGED lvars
    \/ \E jm \in GivenTables : SplitGiven(jm) /\ UNCHANGED lvars

Spec == Init /\ [][Next]_vars

InitLoss == PipeInit /\ LossInit

NextLoss ==
    \/ \E l \in LossValues, e \in Epochs : Call(l, e) /\ UNCHANGED pvars
    \/ WriteHistory /\ UNCHANGED pvars

SpecLoss == InitLoss /\ [][NextLoss]_vars

\* ------------------------------------------------------------------ claims
\* make_joint_matrix has returned jmat
Joined == caller = "join" /\ pc \in {"joined", "split"}

\* split_joint_matrix has run on what make_joint_matrix returned
RoundTrip == caller = "join" /\ pc = "split"

HasSep(s) == \E i \in 1..(Len(s) - 1) : s[i] = "&" /\ s[i + 1] = "-"

SepFree(ml) == \A k \in 1..Len(ml) : \A r \in 1..Len(ml[k].rows) : ~HasSep(ml[k].rows[r])

\* number of rows of the tables before table k (1-based)
RECURSIVE RowsBefore(_, _)
RowsBefore(ml, k) ==
    IF k <= 1 THEN 0 ELSE RowsBefore(ml, k - 1) + Len(ml[k - 1].rows)

TotalRows(ml) == RowsBefore(ml, Len(ml) + 1)

AllColumns(ml) == UNION {SeqToSet(ml[k].cols) : k \in 1..Len(ml)}

\* the cell of table t at row r and column label g
Cell(t, r, g) == t.vals[r][ColPos(t.cols, g)]

\* C3: the joint table's columns are exactly the union of the input
\* tables' columns, and the joint cell at a row of source k and column g is
\* the source's value when the source has g and 0 when it has not.
JointCellValues ==
    Joined =>
        LET jm == jmat[1]
        IN  /\ SeqToSet(jm.cols) = AllColumns(mlist)
            /\ Len(jm.cols) = Cardinality(AllColumns(mlist))
            /\ Len(jm.vals) = TotalRows(mlist)
            /\ \A k \in 1..Len(mlist) : \A r \in 1..Len(mlist[k].rows) :
                   LET row == jm.vals[RowsBefore(mlist, k) + r]
                   IN  /\ Len(row) = Len(jm.cols)
                       /\ \A j \in 1..Len(jm.cols) :
                              row[j] = IF jm.cols[j] \in SeqToSet(mlist[k].cols)
                                       THEN Cell(mlist[k], r, jm.cols[j])
                                       ELSE 0

\* a joint table in which one source lacks a gene that another source has
\* with a non-zero count, and has a non-zero count of its own
JointCellValuesWitness ==
    /\ Joined
    /\ \E k, m \in 1..Len(mlist) : \E g \in SeqToSet(mlist[m].cols) :
           /\ g \notin SeqToSet(mlist[k].cols)
           /\ \E r \in 1..Len(mlist[m].rows) : Cell(mlist[m], r, g) # 0
           /\ \E r \in 1..Len(mlist[k].rows) : \E h \in SeqToSet(mlist[k].cols) :
                  Cell(mlist[k], r, h) # 0

\* C4: the joint row labels are, source after source, str(k) + '&-' + label
\* in each table's own order; source k holds the contiguous rows
\* [prefix[k], prefix[k+1]) of the running sum of the row counts, and its
\* values are in those rows.
JointRowLayout ==
    Joined =>
        LET jm == jmat[1]
        IN  /\ start_pos = [k \in 1..(Len(mlist) + 1) |-> RowsBefore(mlist, k)]
            /\ Len(jm.rows) = TotalRows(mlist)
            /\ Len(jm.vals) = TotalRows(mlist)
            /\ \A i \in 1..Len(jm.rows) :
                   \E k \in 1..Len(mlist) :
                       /\ start_pos[k] < i /\ i <= start_pos[k + 1]
                       /\ \A m \in 1..Len(mlist) :
                              (start_pos[m] < i /\ i <= start_pos[m + 1]) => m = k
                       /\ jm.rows[i] = <<DigitChars[k]>> \o <<"&", "-">>
                                           \o mlist[k].rows[i - start_pos[k]]
                       /\ \A g \in SeqToSet(mlist[k].cols) :
                              Cell(jm, i, g) = Cell(mlist[k], i - start_pos[k], g)

\* a joint table of two sources with rows, the second one's rows after the
\* first one's
JointRowLayoutWitness ==
    /\ Joined
    /\ Len(mlist) = 2
    /\ Len(mlist[1].rows) > 0
    /\ Len(mlist[2].rows) > 0
    /\ jmat[1].rows[Len(jmat[1].rows)][1] = "1"

\* the sources (1-based positions in the input list) that have rows
SourcesWithRows(ml) == {k \in 1..Len(ml) : Len(ml[k].rows) > 0}

\* position, in a list ordered by source, of the table of source k
Rank(ml, k) == Cardinality({m \in SourcesWithRows(ml) : m <= k})

\* table s has the rows of table t and, on t's columns, t's cells
SameOnColumnsOf(t, s) ==
    /\ Len(s.rows) = Len(t.rows)
    /\ Len(s.vals) = Len(t.vals)
    /\ \A r \in 1..Len(t.rows) : \A g \in SeqToSet(t.cols) :
           /\ g \in SeqToSet(s.cols)
           /\ Cell(s, r, g) = Cell(t, r, g)

\* C1: for a non-empty list of tables whose row labels are free of '&-',
\* the i-th table of split_joint_matrix(make_joint_matrix(tables)) has,
\* on Ti's columns, exactly the rows and cells of Ti, for every position i.
RoundTripValues ==
    (RoundTrip /\ mlist # <<>> /\ SepFree(mlist)) =>
        /\ err = "none"
        /\ \A i \in 1..Len(mlist) :
               /\ i <= Len(matlist)
               /\ SameOnColumnsOf(mlist[i], matlist[i])

\* The same for lists in which every table has rows.
RoundTripValuesWithRows ==
    (RoundTrip /\ mlist # <<>> /\ SepFree(mlist)
        /\ SourcesWithRows(mlist) = 1..Len(mlist)) =>
        /\ err = "none"
        /\ \A i \in 1..Len(mlist) :
               /\ i <= Len(matlist)
               /\ SameOnColumnsOf(mlist[i], matlist[i])

\* C2: for every input table Ti with row labels free of '&-', split after
\* join reconstructs a table for source i whose row labels are Ti's row
\* labels, character for character and in Ti's order.
LabelRoundTrip ==
    (RoundTrip /\ SepFree(mlist)) =>
        \A i \in 1..Len(mlist) :
            /\ err = "none"
            /\ i \in SourcesWithRows(mlist)
            /\ Rank(mlist, i) <= Len(matlist)
            /\ matlist[Rank(mlist, i)].rows = mlist[i].rows

\* The same for the input tables that have rows.
LabelRoundTripWithRows ==
    (RoundTrip /\ SepFree(mlist)) =>
        \A i \in SourcesWithRows(mlist) :
            /\ err = "none"
            /\ Rank(mlist, i) <= Len(matlist)
            /\ matlist[Rank(mlist, i)].rows = mlist[i].rows

\* C5: make_joint_matrix called with an empty list signals a failure and
\* returns no table.
EmptyInputRejected ==
    (caller = "join" /\ pc = "joined" /\ mlist = <<>>) =>
        (err # "none" /\ jmat = <<>>)

\* C7: make_joint_matrix given a table with a row label that contains '&-'
\* signals a failure and returns no joint table.
SeparatorCollisionRejected ==
    (caller = "join" /\ pc = "joined" /\ ~SepFree(mlist)) =>
        (err # "none" /\ jmat = <<>>)

\* a row label of the shape numeric prefix + '&-' + remainder
WellFormed(label) ==
    LET parts == PySplit(label, SEP)
    IN  Len(parts) = 2 /\ IsIntLiteral(parts[1])

AllWellFormed(jm) == \A i \in 1..Len(jm.rows) : WellFormed(jm.rows[i])

\* C6: when at least one row label of the table given to
\* split_joint_matrix is not of the shape numeric prefix + '&-' + remainder,
\* the split signals a failure and returns no table.
MalformedRejected ==
    (pc = "split" /\ ~AllWellFormed(jmat[1])) =>
        (err # "none" /\ matlist = <<>>)

\* The same for the labels without separator or with a prefix int() rejects.
MalformedPrefixRejected ==
    (pc = "split" /\ \E i \in 1..Len(jmat[1].rows) :
                        LET parts == PySplit(jmat[1].rows[i], SEP)
                        IN  Len(parts) = 1 \/ ~IsIntLiteral(parts[1])) =>
        (err # "none" /\ matlist = <<>>)

\* the rows of the joint table that belong to source i, as a table
JointRowsOf(ml, jm, i) ==
    [r \in 1..Len(ml[i].rows) |-> jm.vals[RowsBefore(ml, i) + r]]

\* C8: for a non-empty list of N tables (labels free of '&-'), tables
\* without rows included, split after join returns exactly N tables, the
\* i-th one made of the joint rows of input table i.
SplitReturnsAllTables ==
    (RoundTrip /\ mlist # <<>> /\ SepFree(mlist)) =>
        /\ err = "none"
        /\ Len(matlist) = Len(mlist)
        /\ \A i \in 1..Len(mlist) : matlist[i].vals = JointRowsOf(mlist, jmat[1], i)

\* The same for lists in which every table has rows.
SplitReturnsAllTablesWithRows ==
    (RoundTrip /\ mlist # <<>> /\ SepFree(mlist)
        /\ SourcesWithRows(mlist) = 1..Len(mlist)) =>
        /\ err = "none"
        /\ Len(matlist) = Len(mlist)
        /\ \A i \in 1..Len(mlist) : matlist[i].vals = JointRowsOf(mlist, jmat[1], i)

\* the source index a well-formed row label carries
IndexOf(label) == PyInt(PySplit(label, SEP)[1])

\* the rows of jm that carry source index k, in their order in jm, with
\* the remainder of their label, over the columns of jm
RECURSIVE RowsCarrying(_, _, _)
RowsCarrying(jm, k, i) ==
    IF i > Len(jm.rows) THEN [rows |-> <<>>, cols |-> jm.cols, vals |-> <<>>]
    ELSE LET rest == RowsCarrying(jm, k, i + 1)
         IN  IF IndexOf(jm.rows[i]) = k
             THEN [rows |-> <<PySplit(jm.rows[i], SEP)[2]>> \o rest.rows,
                   cols |-> jm.cols,
                   vals |-> <<jm.vals[i]>> \o rest.vals]
             ELSE rest

IndicesPresent(jm) == {IndexOf(jm.rows[i]) : i \in 1..Len(jm.rows)}

StablePartition(jm) ==
    /\ err = "none"
    /\ Len(matlist) = Cardinality(IndicesPresent(jm))
    /\ \A k \in IndicesPresent(jm) :
           matlist[Cardinality({m \in IndicesPresent(jm) : m <= k})]
               = RowsCarrying(jm, k, 1)

\* C9: for any joint table whose row labels are all well formed,
\* split_joint_matrix returns one table per distinct source index present,
\* by ascending numeric index, each holding exactly the joint rows of that
\* index in their joint order, over the joint table's columns.
SplitStablePartition ==
    (pc = "split" /\ AllWellFormed(jmat[1])) => StablePartition(jmat[1])

\* The same for the joint tables that have at least one row.
SplitStablePartitionWithRows ==
    (pc = "split" /\ AllWellFormed(jmat[1]) /\ jmat[1].rows # <<>>) =>
        StablePartition(jmat[1])

\* the loss values in the text of the output file: its comma-separated
\* fields, the empty ones aside
RECURSIVE ParseFields(_)
ParseFields(fields) ==
    IF fields = <<>> THEN <<>>
    ELSE (IF Head(fields) = <<>> THEN <<>> ELSE <<PyInt(Head(fields))>>)
             \o ParseFields(Tail(fields))

FileLosses(text) == ParseFields(PySplit(text, <<",">>))

\* C10: after any sequence of __call__ and write_history operations the
\* loss values in the output file followed by the in-memory history are
\* the losses passed to __call__, in call order, and write_history leaves
\* the history empty.
LossNothingLost ==
    /\ FileLosses(opth) \o history = losses
    /\ (lastop = "write" => history = <<>>)

\* losses in the file from two writes, one of them of an empty history, and
\* more in memory
LossNothingLostWitness ==
    /\ writes >= 2
    /\ Len(FileLosses(opth)) >= 1
    /\ Len(FileLosses(opth)) < Len(PySplit(opth, <<",">>)) - 1
    /\ history # <<>>

====
